---- MODULE Spec2Model ----
(***************************************************************************)
(* Model of src/main.py: two job-board scrapers (HeadHunter, HabrCareer)   *)
(* registered as daily jobs of the `schedule` library and driven by the    *)
(* module-level loop `while True: run_pending(); sleep(1)`.                *)
(*                                                                         *)
(* Time is counted in hours since 00:00 of the day the model starts.       *)
(* One process, one thread of control: `pc` is the position of that        *)
(* thread.  The web sites, the detail pages and the kill signal are the    *)
(* environment and are chosen nondeterministically from bounded sets.      *)
(***************************************************************************)
EXTENDS Integers, Sequences, FiniteSets, TLC

VARIABLES
    now,                  \* wall clock, in hours
    pc,                   \* position of the single thread of control
    exc,                  \* what ended the process ("" while it runs)
    jobs,                 \* schedule's jobs: source -> [next_run]
    pending,              \* run_pending: the sorted runnable jobs still to run
    file,                 \* the two *_vacancies.json files
    cfg,                  \* searching_config: CITIES, EXTRA_TAGS, NUMBER_OF_PAGES
    world,                \* environment: what the sites serve, how the process is operated
    old_vacancies_links,  \* locals of find_all_vacancies
    old_vacancies_info,
    new_vacancies_info,
    page,
    todo,                 \* find_vacancies_on_page: the links still to iterate over
    new_vacancies_info_on_page,   \* local of find_vacancies_on_page
    prior,                \* history: the file as it was when the run loaded it
    fetched,              \* history: links passed to _find_info_target_vacancy in this run
    tally,                \* history: fetches of this run that returned, and those of them
                          \*          whose page failed the keyword filter
    accepted,             \* history: the records _find_info_target_vacancy returned in this run
    listed,               \* history: identifiers listed by the pages of this run
    listed_last,          \* history: source -> identifiers listed in the last run that wrote its file
    nlisted,              \* history: number of identifiers listed so far in this run
    net,                  \* history: a network call was made in this run
    served,               \* history: source -> the day period of its last invocation (or of the start)
    invoked_at,           \* history: the hour at which the running job was invoked
    starts,               \* history: times the process was started again
    frame                 \* a function called on its own: its arguments and its result

vars == <<now, pc, exc, jobs, pending, file, cfg, world,
          old_vacancies_links, old_vacancies_info, new_vacancies_info, page,
          todo, new_vacancies_info_on_page,
          prior, fetched, tally, accepted, listed, listed_last, nlisted, net,
          served, invoked_at, starts, frame>>

(***************************************************************************)
(* Bounds of the model                                                     *)
(***************************************************************************)
NumLinks == 3      \* distinct listing identifiers in the world
MaxPages == 2      \* largest NUMBER_OF_PAGES
MaxPageLen == 4    \* most identifiers on one results page
ShortPageLen == 2  \* most identifiers on one results page of a world with short pages
MaxListed == 4     \* most identifiers listed over the pages of one run
MaxDays == 3       \* days the clock runs
MaxDelay == 1      \* most hours one results-page fetch takes
MaxMissing == 2    \* most elements missing from one detail page
MaxStarts == 1     \* most times the process is started again
MaxTextLen == 2    \* longest description given to the keyword filter
MaxTagLen == 2     \* longest extra tag
MaxTags == 2       \* most extra tags

(***************************************************************************)
(* Program constants                                                       *)
(***************************************************************************)
DayLen == 24       \* hours per day (every().day)
AtHH == 17         \* HeadHunter: every().day.at('17:00')
AtHabr == 16       \* HabrCareer: every().day.at('16:00')
HabrPageCap == 3   \* HabrCareer: all_vacancies[:3]

HH == "headhunter"
Habr == "habrcareer"
\* the jobs in registration order (HeadHunter is defined first)
Sources == <<HH, Habr>>
SourceSet == {HH, Habr}
at_time == [s \in SourceSet |-> IF s = HH THEN AtHH ELSE AtHabr]

Links == 1..NumLinks
MaxClock == MaxDays * DayLen
None == -1


(***************************************************************************)
(* The persisted state files                                               *)
(***************************************************************************)
\* no file on disk
AbsentFile == [kind |-> "absent", new |-> <<>>, old |-> <<>>]
\* open(..., 'w') has truncated the file and nothing has reached the disk yet
EmptyFile == [kind |-> "empty", new |-> <<>>, old |-> <<>>]
\* a prefix of the JSON text has reached the disk
PartialFile == [kind |-> "partial", new |-> <<>>, old |-> <<>>]
\* a file that parses as JSON and has no 'new' and 'old' keys, as left by hand
NoPartitionsFile == [kind |-> "nokeys", new |-> <<>>, old |-> <<>>]
\* json.dump({'new': n, 'old': o}) written completely
JsonFile(n, o) == [kind |-> "json", new |-> n, old |-> o]

LinksOf(info) == {info[i]["link"] : i \in DOMAIN info}

\* variants of _pull_info_from_json: the partitions joined old first; the
\* known links taken from the old partition alone; a file that cannot be
\* used taken as no prior state; the old partition left out of the records
pull_info_old_first(f) ==
    IF f.kind = "absent"
    THEN [exc |-> "", links |-> {}, info |-> <<>>]
    ELSE IF f.kind = "json"
    THEN [exc |-> "", links |-> LinksOf(f.new \o f.old), info |-> f.old \o f.new]
    ELSE [exc |-> "JSONDecodeError", links |-> {}, info |-> <<>>]

pull_info_lenient(f) ==
    IF f.kind = "json"
    THEN [exc |-> "", links |-> LinksOf(f.new \o f.old), info |-> f.new \o f.old]
    ELSE [exc |-> "", links |-> {}, info |-> <<>>]

pull_info_new_only(f) ==
    IF f.kind = "absent"
    THEN [exc |-> "", links |-> {}, info |-> <<>>]
    ELSE IF f.kind = "json"
    THEN [exc |-> "", links |-> LinksOf(f.new \o f.old), info |-> f.new]
    ELSE IF f.kind = "nokeys"
    THEN [exc |-> "KeyError('new')", links |-> {}, info |-> <<>>]
    ELSE [exc |-> "JSONDecodeError", links |-> {}, info |-> <<>>]

pull_info_links_of_old(f) ==
    IF f.kind = "absent"
    THEN [exc |-> "", links |-> {}, info |-> <<>>]
    ELSE IF f.kind = "json"
    THEN [exc |-> "", links |-> LinksOf(f.old), info |-> f.new \o f.old]
    ELSE [exc |-> "JSONDecodeError", links |-> {}, info |-> <<>>]

\* _pull_info_from_json applied to the content f of the source's file
_pull_info_from_json(f) ==
    IF f.kind = "absent"
    THEN [exc |-> "", links |-> {}, info |-> <<>>]
    ELSE IF f.kind = "json"
    THEN [exc |-> "", links |-> LinksOf(f.new \o f.old), info |-> f.new \o f.old]
    ELSE IF f.kind = "nokeys"
    THEN [exc |-> "KeyError('new')", links |-> {}, info |-> <<>>]
    ELSE [exc |-> "JSONDecodeError", links |-> {}, info |-> <<>>]

(***************************************************************************)
(* URL construction                                                        *)
(***************************************************************************)
\* str.title() on the city names the model uses
title(city) ==
    CASE city = "moskva" -> "Moskva"
      [] city = "sankt-peterburg" -> "Sankt-Peterburg"
      [] city = "kazan" -> "Kazan"
      [] OTHER -> city

\* cities_for_search of each class
cities_for_search(s) ==
    IF s = HH
    THEN [c \in {"Moskva", "Sankt-Peterburg"} |-> IF c = "Moskva" THEN "1" ELSE "2"]
    ELSE [c \in {"Moskva", "Sankt-Peterburg"} |-> IF c = "Moskva" THEN "c_678" ELSE "c_679"]

\* variant of _create_url: dict.get in place of the lookup, no KeyError
create_url_unmapped(s, cities, p) ==
    [exc |-> "",
     area |-> [i \in DOMAIN cities |->
                  IF title(cities[i]) \in DOMAIN cities_for_search(s)
                  THEN cities_for_search(s)[title(cities[i])]
                  ELSE ""],
     page |-> p]

\* _create_url: the url as its query parameters, or the KeyError of the lookup
_create_url(s, cities, p) ==
    IF \E i \in DOMAIN cities : title(cities[i]) \notin DOMAIN cities_for_search(s)
    THEN [exc |-> "KeyError", area |-> <<>>, page |-> p]
    ELSE [exc |-> "",
          area |-> [i \in DOMAIN cities |-> cities_for_search(s)[title(cities[i])]],
          page |-> p]

(***************************************************************************)
(* Keyword filter                                                          *)
(***************************************************************************)
\* re.I: case folding of the letters the model uses
lower(c) ==
    CASE c = "G" -> "g"
      [] c = "O" -> "o"
      [] c = "X" -> "x"
      [] OTHER -> c

\* the pattern matches the text at position i ("." matches any character)
match_at(pattern, text, i) ==
    /\ i + Len(pattern) - 1 <= Len(text)
    /\ \A k \in 1..Len(pattern) :
          \/ pattern[k] = "."
          \/ lower(pattern[k]) = lower(text[i + k - 1])

\* variant of re.search: re.match, the pattern only at the start of the text
re_match(pattern, text) == match_at(pattern, text, 1)

\* bool(re.search(pattern, text, flags=re.I))
re_search(pattern, text) == \E i \in 1..(Len(text) + 1) : match_at(pattern, text, i)

\* _check_vacancy_on_extra_tags: the loop with its break, from position k on
RECURSIVE check_from(_, _, _)
check_from(description, extra_tags, k) ==
    IF k > Len(extra_tags) THEN TRUE
    ELSE IF ~re_search(extra_tags[k], description) THEN FALSE
    ELSE check_from(description, extra_tags, k + 1)

_check_vacancy_on_extra_tags(description, extra_tags) ==
    check_from(description, extra_tags, 1)

(***************************************************************************)
(* Detail pages                                                            *)
(***************************************************************************)
\* texts a detail page can carry in its description / page title element
Descriptions == {<<"G", "o">>, <<"x">>}

\* what a detail page contains: which elements the DOM queries find
Elements == {"has_description", "title", "salary", "company", "raw_address", "location"}
DetailPages ==
    {d \in [has_description : BOOLEAN, description : Descriptions,
            title : BOOLEAN, salary : BOOLEAN, company : BOOLEAN,
            raw_address : BOOLEAN, location : BOOLEAN] :
        /\ ~d.has_description => d.description = <<"x">>
        /\ Cardinality({e \in Elements : ~d[e]}) <= MaxMissing}

\* the body of a response with a non-success status: none of the elements
ErrorPage ==
    [has_description |-> FALSE, description |-> <<"x">>, title |-> FALSE,
     salary |-> FALSE, company |-> FALSE, raw_address |-> FALSE, location |-> FALSE]

\* what requests.get / driver.get raises when the fetch fails
fetch_error(s) == IF s = HH THEN "ConnectionError" ELSE "WebDriverException"

Raise(e) == [exc |-> e, info |-> <<>>]
Return(info) == [exc |-> "", info |-> info]
\* vacancies_info = {}
EmptyInfo == <<>>
\* the texts of a listing are not told apart, except the salary sentinel
Info(link, salary) ==
    [link |-> link, position |-> "position", salary |-> salary,
     company |-> "company", address |-> "address"]

\* variant of HeadHunter._find_info_target_vacancy: the verdict of the keyword
\* filter is computed and not acted upon
HeadHunter_find_info_unfiltered(link, extra_tags, d) ==
    IF extra_tags # <<>> /\ ~d.has_description THEN Raise("AttributeError")
    ELSE IF ~d.title THEN Raise("AttributeError")
    ELSE IF ~d.company THEN Raise("AttributeError")
    ELSE IF ~d.raw_address /\ ~d.location THEN Raise("AttributeError")
    ELSE Return(Info(link, IF d.salary THEN "salary" ELSE "ne ukazano"))

\* HeadHunter._find_info_target_vacancy on the detail page d
HeadHunter_find_info_target_vacancy(link, extra_tags, d) ==
    IF extra_tags # <<>> /\ ~d.has_description THEN Raise("AttributeError")
    ELSE IF extra_tags # <<>> /\ ~_check_vacancy_on_extra_tags(d.description, extra_tags)
    THEN Return(EmptyInfo)
    ELSE IF ~d.title THEN Raise("AttributeError")
    ELSE IF ~d.company THEN Raise("AttributeError")
    ELSE IF ~d.raw_address /\ ~d.location THEN Raise("AttributeError")
    ELSE Return(Info(link, IF d.salary THEN "salary" ELSE "ne ukazano"))

\* HabrCareer._find_info_target_vacancy on the detail page d: wait_element
\* times out on a missing element, find_elements(...)[-1] needs one element
HabrCareer_find_info_target_vacancy(link, extra_tags, d) ==
    IF extra_tags # <<>> /\ ~d.has_description THEN Raise("TimeoutException")
    ELSE IF extra_tags # <<>> /\ ~_check_vacancy_on_extra_tags(d.description, extra_tags)
    THEN Return(EmptyInfo)
    ELSE IF ~d.title THEN Raise("TimeoutException")
    ELSE IF ~d.salary THEN Raise("TimeoutException")
    ELSE IF ~d.company THEN Raise("TimeoutException")
    ELSE IF ~d.location THEN Raise("IndexError")
    ELSE Return(Info(link, "salary"))

_find_info_target_vacancy(s, link, extra_tags, d) ==
    IF s = HH
    THEN HeadHunter_find_info_target_vacancy(link, extra_tags, d)
    ELSE HabrCareer_find_info_target_vacancy(link, extra_tags, d)

(***************************************************************************)
(* The schedule library: every().day.at(...) jobs and run_pending          *)
(***************************************************************************)
\* variant of Job._schedule_next_run: never today, always the next day
schedule_next_run_tomorrow(t, last_run, at) ==
    ((t + DayLen) \div DayLen) * DayLen + at

\* Job._schedule_next_run at time t for a job last run at last_run
schedule_next_run(t, last_run, at) ==
    LET next_run == ((t + DayLen) \div DayLen) * DayLen + at
    IN  IF /\ (last_run = None \/ next_run - last_run > DayLen)
           /\ at > t % DayLen
        THEN next_run - DayLen
        ELSE next_run

\* @repeat(every().day.at(...)) at time t: the job table after registration
repeat(t) ==
    [s \in SourceSet |->
        [next_run |-> schedule_next_run(t, None, at_time[s])]]

\* the number of the day period of job s that hour t lies in: period p starts
\* at at_time[s] of day p - 1
period(s, t) == (t + DayLen - at_time[s]) \div DayLen
\* the hour at which period p of job s starts
fire_time(s, p) == (p - 1) * DayLen + at_time[s]

\* Job.should_run
should_run(job) == now >= job.next_run

\* sorted(runnable_jobs): by next_run, ties in registration order
sorted_runnable ==
    LET runnable == SelectSeq(Sources, LAMBDA s : should_run(jobs[s]))
    IN  IF Len(runnable) = 2 /\ jobs[runnable[2]].next_run < jobs[runnable[1]].next_run
        THEN <<runnable[2], runnable[1]>>
        ELSE runnable

(***************************************************************************)
(* Configuration and environment                                           *)
(***************************************************************************)
\* searching_config.py: the values of CITIES, EXTRA_TAGS, NUMBER_OF_PAGES tried
Configs ==
    [cities : {<<"moskva">>, <<"Moskva", "Kazan">>},
     extra_tags : {<<>>, << <<"g", "o">> >>},
     number_of_pages : 0..MaxPages]

\* hours of the day at which the process may be started
StartTimes == {AtHabr - 1, AtHabr, AtHH}

\* The worlds the program is run in: the identifiers the result pages of each
\* site can list, the most identifiers on one page, the detail pages behind
\* them, the hours one results-page fetch takes, whether a fetch can fail,
\* and how often the operator starts the process again after it ended.
\* one site with listings, all but one identifier, pages of up to maxlen
OnlySite(s, maxlen) ==
    [links |-> [t \in SourceSet |-> IF t = s THEN 1..(NumLinks - 1) ELSE {}],
     maxlen |-> maxlen,
     detail |-> {d \in DetailPages : d.salary},
     delay |-> 0,
     transport |-> {"ok"},
     restarts |-> 0]
\* one site with every identifier, one listing a page
ThinWorld ==
    [links |-> [t \in SourceSet |-> IF t = HH THEN Links ELSE {}],
     maxlen |-> 1,
     detail |-> {d \in DetailPages : d.salary},
     delay |-> 0,
     transport |-> {"ok"},
     restarts |-> 0]
\* both sites with one listing, every detail page, the process started again
SmallWorld ==
    [links |-> [t \in SourceSet |-> {1}],
     maxlen |-> 1,
     detail |-> DetailPages \cup {ErrorPage},
     delay |-> 0,
     transport |-> {"ok", "fail"},
     restarts |-> MaxStarts]
\* no listings, slow result pages
SlowWorld ==
    [links |-> [t \in SourceSet |-> {}],
     maxlen |-> 0,
     detail |-> DetailPages,
     delay |-> MaxDelay,
     transport |-> {"ok", "fail"},
     restarts |-> 0]
\* the state files the process may find when it is first started
InitialFiles(w) ==
    IF w = SlowWorld
    THEN [SourceSet -> {AbsentFile, NoPartitionsFile}]
    ELSE {[s \in SourceSet |-> AbsentFile]}

Worlds ==
    {OnlySite(HH, ShortPageLen), OnlySite(Habr, MaxPageLen),
     ThinWorld, SmallWorld, SlowWorld}

\* the runs tried: a world with many listings is run with one configuration
Scenario(c, w, t) ==
    /\ w \in {OnlySite(HH, ShortPageLen), OnlySite(Habr, MaxPageLen)} =>
          /\ c.cities = <<"moskva">>
          /\ c.extra_tags # <<>>
          /\ c.number_of_pages = MaxPages
          /\ t = AtHabr - 1
    /\ w = ThinWorld =>
          /\ c.cities = <<"moskva">>
          /\ c.extra_tags # <<>>
          /\ c.number_of_pages = 1
          /\ t = AtHabr - 1

SeqsUpTo(S, n) == UNION {[1..k -> S] : k \in 0..n}
Range(q) == {q[i] : i \in DOMAIN q}
Min(a, b) == IF a < b THEN a ELSE b

\* variant of the page range: range(1, number_of_pages) for HabrCareer
last_page_short(s, n) == n - 1

\* variant of the page range: range(1, ...) for both adapters
first_page_one(s) == 1

\* range(number_of_pages) / range(1, number_of_pages + 1)
first_page(s) == IF s = HH THEN 0 ELSE 1
last_page(s, n) == IF s = HH THEN n - 1 ELSE n

\* the links the page loop iterates over: all of them / all_vacancies[:3]
links_on_page(s, found) ==
    IF s = HH THEN found ELSE SubSeq(found, 1, Min(HabrPageCap, Len(found)))

\* variant of the dedup gate: the test left out
is_known_never(link, links) == FALSE

\* the dedup gate: `if link in old_vacancies_links: continue`
is_known(link, links) == link \in links

(***************************************************************************)
(* Initial state                                                           *)
(***************************************************************************)
NoTally == [returned |-> 0, failed |-> 0]
\* the text of the detail page d does not match every extra tag
fails_filter(d, extra_tags) ==
    /\ extra_tags # <<>>
    /\ d.has_description
    /\ \E k \in DOMAIN extra_tags : ~re_search(extra_tags[k], d.description)

NoLocals ==
    /\ old_vacancies_links' = {}
    /\ old_vacancies_info' = <<>>
    /\ new_vacancies_info' = <<>>
    /\ page' = 0
    /\ todo' = <<>>
    /\ new_vacancies_info_on_page' = <<>>

NoHistory ==
    /\ prior' = AbsentFile
    /\ fetched' = {}
    /\ tally' = NoTally
    /\ accepted' = <<>>
    /\ listed' = {}
    /\ nlisted' = 0
    /\ invoked_at' = None

\* no function is called on its own
NoFrame == [fn |-> "none"]

\* the jobs of a process that is not running
NoJobs == [s \in SourceSet |-> [next_run |-> None]]

Init ==
    /\ now \in StartTimes
    /\ cfg \in Configs
    /\ world \in Worlds
    /\ Scenario(cfg, world, now)
    /\ pc = "loop"
    /\ exc = ""
    /\ jobs = repeat(now)
    /\ pending = <<>>
    /\ file \in InitialFiles(world)
    /\ old_vacancies_links = {}
    /\ old_vacancies_info = <<>>
    /\ new_vacancies_info = <<>>
    /\ page = 0
    /\ todo = <<>>
    /\ new_vacancies_info_on_page = <<>>
    /\ prior = AbsentFile
    /\ fetched = {}
    /\ tally = NoTally
    /\ accepted = <<>>
    /\ listed = {}
    /\ listed_last = [s \in SourceSet |-> {}]
    /\ nlisted = 0
    /\ net = FALSE
    /\ served = [s \in SourceSet |-> period(s, now)]
    /\ invoked_at = None
    /\ starts = 0
    /\ frame = NoFrame

\* the source whose job is running
cur == Head(pending)

\* the process ends with e: its memory (jobs, pending jobs, locals) is gone
Exit(e) ==
    /\ pc' = "dead"
    /\ exc' = e
    /\ jobs' = NoJobs
    /\ pending' = <<>>
    /\ served' = [s \in SourceSet |-> 0]
    /\ NoLocals
    /\ NoHistory

(***************************************************************************)
(* The scheduler loop                                                      *)
(***************************************************************************)
\* run_pending() with runnable jobs: sort them, then run them one after another
run_pending ==
    /\ pc = "loop"
    /\ sorted_runnable # <<>>
    /\ pending' = sorted_runnable
    /\ pc' = "job"
    /\ UNCHANGED <<now, exc, jobs, file, cfg, world,
                   old_vacancies_links, old_vacancies_info, new_vacancies_info, page,
                   todo, new_vacancies_info_on_page,
                   prior, fetched, tally, accepted, listed, listed_last, nlisted, net,
                   served, invoked_at, starts>>
    /\ UNCHANGED frame

\* run_pending() with no runnable job, then sleep(1): one idle turn of the loop
idle ==
    /\ pc = "loop"
    /\ sorted_runnable = <<>>
    /\ now < MaxClock
    /\ now' = now + 1
    /\ UNCHANGED <<pc, exc, jobs, pending, file, cfg, world,
                   old_vacancies_links, old_vacancies_info, new_vacancies_info, page,
                   todo, new_vacancies_info_on_page,
                   prior, fetched, tally, accepted, listed, listed_last, nlisted, net,
                   served, invoked_at, starts>>
    /\ UNCHANGED frame

\* sleep(1) after the runnable jobs have run
sleep ==
    /\ pc = "sleep"
    /\ now < MaxClock
    /\ now' = now + 1
    /\ pc' = "loop"
    /\ UNCHANGED <<exc, jobs, pending, file, cfg, world,
                   old_vacancies_links, old_vacancies_info, new_vacancies_info, page,
                   todo, new_vacancies_info_on_page,
                   prior, fetched, tally, accepted, listed, listed_last, nlisted, net,
                   served, invoked_at, starts>>
    /\ UNCHANGED frame

(***************************************************************************)
(* One collection run                                                      *)
(***************************************************************************)
\* Job.run calls find_all_vacancies: load the state file, start the page loop
find_all_vacancies ==
    /\ pc = "job"
    /\ net' = FALSE
    /\ LET r == _pull_info_from_json(file[cur])
       IN  IF r.exc # ""
           THEN Exit(r.exc)
           ELSE /\ pc' = "pages"
                /\ invoked_at' = now
                /\ prior' = file[cur]
                /\ old_vacancies_links' = r.links
                /\ old_vacancies_info' = r.info
                /\ new_vacancies_info' = <<>>
                /\ page' = first_page(cur)
                /\ fetched' = {}
                /\ tally' = NoTally
                /\ accepted' = <<>>
                /\ listed' = {}
                /\ nlisted' = 0
                /\ UNCHANGED <<exc, jobs, pending, served, todo,
                               new_vacancies_info_on_page>>
    /\ UNCHANGED <<now, file, cfg, world, listed_last, starts>>
    /\ UNCHANGED frame

\* find_vacancies_on_page, entry: build the url and fetch the results page
find_vacancies_on_page ==
    /\ pc = "pages"
    /\ page <= last_page(cur, cfg.number_of_pages)
    /\ LET url == _create_url(cur, cfg.cities, page)
       IN  IF url.exc # ""
           THEN /\ Exit(url.exc)
                /\ UNCHANGED <<now, net>>
           ELSE \/ \E found \in SeqsUpTo(world.links[cur],
                                         Min(world.maxlen, MaxListed - nlisted)) :
                   /\ now + world.delay <= MaxClock
                   /\ now' = now + world.delay
                   /\ pc' = "items"
                   /\ todo' = links_on_page(cur, found)
                   /\ new_vacancies_info_on_page' = <<>>
                   /\ listed' = listed \cup Range(found)
                   /\ nlisted' = nlisted + Len(found)
                   /\ net' = TRUE
                   /\ UNCHANGED <<exc, jobs, pending, served, invoked_at, prior,
                                  fetched, tally, accepted, old_vacancies_links,
                                  old_vacancies_info, new_vacancies_info, page>>
                \/ /\ "fail" \in world.transport
                   /\ Exit(fetch_error(cur))
                   /\ net' = TRUE
                   /\ UNCHANGED now
    /\ UNCHANGED <<file, cfg, world, listed_last, starts>>
    /\ UNCHANGED frame

\* one iteration of `for vacancy in pbar` / `for link in pbar`
for_link ==
    /\ pc = "items"
    /\ todo # <<>>
    /\ LET link == Head(todo)
       IN  IF is_known(link, old_vacancies_links)
           THEN /\ todo' = Tail(todo)
                /\ UNCHANGED <<pc, exc, jobs, pending, served, invoked_at, prior,
                               fetched, tally, accepted, listed, nlisted, net,
                               old_vacancies_links, old_vacancies_info,
                               new_vacancies_info, page, new_vacancies_info_on_page>>
           ELSE \E d \in world.detail, t \in world.transport :
                LET r == IF t = "fail"
                         THEN Raise(fetch_error(cur))
                         ELSE _find_info_target_vacancy(cur, link, cfg.extra_tags, d)
                IN  /\ net' = TRUE
                    /\ IF r.exc # ""
                       THEN Exit(r.exc)
                       ELSE /\ todo' = Tail(todo)
                            /\ fetched' = fetched \cup {link}
                            /\ tally' = [returned |-> tally.returned + 1,
                                         failed |-> tally.failed +
                                            IF fails_filter(d, cfg.extra_tags)
                                            THEN 1 ELSE 0]
                            /\ accepted' = IF DOMAIN r.info # {}
                                           THEN Append(accepted, r.info)
                                           ELSE accepted
                            /\ new_vacancies_info_on_page' =
                                  IF DOMAIN r.info # {}
                                  THEN Append(new_vacancies_info_on_page, r.info)
                                  ELSE new_vacancies_info_on_page
                            /\ UNCHANGED <<pc, exc, jobs, pending, served,
                                           invoked_at, prior, listed, nlisted,
                                           old_vacancies_links, old_vacancies_info,
                                           new_vacancies_info, page>>
    /\ UNCHANGED <<now, file, cfg, world, listed_last, starts>>
    /\ UNCHANGED frame

\* variant of the end of a page: run_pending() is called inside the page loop,
\* so a job that has become due is started inside the run in progress
page_done_reentrant ==
    /\ pc = "items"
    /\ todo = <<>>
    /\ new_vacancies_info' = new_vacancies_info \o new_vacancies_info_on_page
    /\ page' = page + 1
    /\ new_vacancies_info_on_page' = <<>>
    /\ LET due == SelectSeq(Sources, LAMBDA s : s # cur /\ should_run(jobs[s]))
       IN  /\ pending' = due \o pending
           /\ pc' = IF due = <<>> THEN "pages" ELSE "job"
    /\ UNCHANGED <<now, exc, jobs, file, cfg, world,
                   old_vacancies_links, old_vacancies_info, todo,
                   prior, fetched, tally, accepted, listed, listed_last, nlisted, net,
                   served, invoked_at, starts>>
    /\ UNCHANGED frame

\* find_vacancies_on_page returns; find_all_vacancies extends its list
page_done ==
    /\ pc = "items"
    /\ todo = <<>>
    /\ new_vacancies_info' = new_vacancies_info \o new_vacancies_info_on_page
    /\ page' = page + 1
    /\ new_vacancies_info_on_page' = <<>>
    /\ pc' = "pages"
    /\ UNCHANGED <<now, exc, jobs, pending, file, cfg, world,
                   old_vacancies_links, old_vacancies_info, todo,
                   prior, fetched, tally, accepted, listed, listed_last, nlisted, net,
                   served, invoked_at, starts>>
    /\ UNCHANGED frame

\* _push_info_in_json: open(..., 'w') truncates the file
push_open ==
    /\ pc = "pages"
    /\ page > last_page(cur, cfg.number_of_pages)
    /\ file' = [file EXCEPT ![cur] = EmptyFile]
    /\ pc' = "dump"
    /\ UNCHANGED <<now, exc, jobs, pending, cfg, world,
                   old_vacancies_links, old_vacancies_info, new_vacancies_info, page,
                   todo, new_vacancies_info_on_page,
                   prior, fetched, tally, accepted, listed, listed_last, nlisted, net,
                   served, invoked_at, starts>>
    /\ UNCHANGED frame

\* _push_info_in_json: json.dump has flushed part of the text
push_flush ==
    /\ pc = "dump"
    /\ file[cur] = EmptyFile
    /\ file' = [file EXCEPT ![cur] = PartialFile]
    /\ UNCHANGED <<now, pc, exc, jobs, pending, cfg, world,
                   old_vacancies_links, old_vacancies_info, new_vacancies_info, page,
                   todo, new_vacancies_info_on_page,
                   prior, fetched, tally, accepted, listed, listed_last, nlisted, net,
                   served, invoked_at, starts>>
    /\ UNCHANGED frame

\* _push_info_in_json: the text is complete and the file closed
push_close ==
    /\ pc = "dump"
    /\ file' = [file EXCEPT ![cur] = JsonFile(new_vacancies_info, old_vacancies_info)]
    /\ pc' = "saved"
    /\ UNCHANGED <<now, exc, jobs, pending, cfg, world,
                   old_vacancies_links, old_vacancies_info, new_vacancies_info, page,
                   todo, new_vacancies_info_on_page,
                   prior, fetched, tally, accepted, listed, listed_last, nlisted, net,
                   served, invoked_at, starts>>
    /\ UNCHANGED frame

\* find_all_vacancies returns to Job.run: last_run = now, the next run is
\* scheduled, and run_pending goes on to the next runnable job
job_return ==
    /\ pc = "saved"
    /\ jobs' = [jobs EXCEPT ![cur] =
                   [next_run |-> schedule_next_run(now, now, at_time[cur])]]
    /\ pending' = Tail(pending)
    /\ pc' = IF Tail(pending) = <<>> THEN "sleep" ELSE "job"
    /\ served' = [served EXCEPT ![cur] = period(cur, invoked_at)]
    /\ listed_last' = [listed_last EXCEPT ![cur] = listed]
    /\ net' = FALSE
    /\ NoLocals
    /\ NoHistory
    /\ UNCHANGED <<now, exc, file, cfg, world, starts>>
    /\ UNCHANGED frame

(***************************************************************************)
(* The environment: the process is killed, and started again               *)
(***************************************************************************)
kill ==
    /\ pc # "dead"
    /\ Exit("SIGKILL")
    /\ listed_last' = IF pc = "saved"
                      THEN [listed_last EXCEPT ![cur] = listed]
                      ELSE listed_last
    /\ net' = FALSE
    /\ UNCHANGED <<now, file, cfg, world, starts>>
    /\ UNCHANGED frame

\* the module is run again: the jobs are registered anew, the files stay
start ==
    /\ pc = "dead"
    /\ starts < world.restarts
    /\ starts' = starts + 1
    /\ served' = [s \in SourceSet |-> period(s, now)]
    /\ pc' = "loop"
    /\ exc' = ""
    /\ jobs' = repeat(now)
    /\ net' = FALSE
    /\ UNCHANGED <<now, pending, file, cfg, world,
                   old_vacancies_links, old_vacancies_info, new_vacancies_info, page,
                   todo, new_vacancies_info_on_page,
                   prior, fetched, tally, accepted, listed, listed_last, nlisted, invoked_at>>
    /\ UNCHANGED frame

Next ==
    \/ run_pending
    \/ idle
    \/ sleep
    \/ find_all_vacancies
    \/ find_vacancies_on_page
    \/ for_link
    \/ page_done
    \/ push_open
    \/ push_flush
    \/ push_close
    \/ job_return
    \/ kill
    \/ start

Spec == Init /\ [][Next]_vars

(***************************************************************************)
(* Functions called on their own: the arguments are drawn in the initial   *)
(* state, one action calls the function and records what it returns.       *)
(***************************************************************************)
TextChars == {"G", "o"}
TagChars == {"g", "."}
\* the descriptions and the extra tags (regular expressions) tried
Texts == SeqsUpTo(TextChars, MaxTextLen)
Tags == SeqsUpTo(TagChars, MaxTagLen)
TagLists == SeqsUpTo(Tags, MaxTags)

\* _check_vacancy_on_extra_tags(description, extra_tags) about to be called
FilterFrames ==
    {[fn |-> "_check_vacancy_on_extra_tags",
      args |-> [description |-> t, extra_tags |-> g],
      done |-> FALSE,
      result |-> FALSE] : t \in Texts, g \in TagLists}

\* _find_info_target_vacancy(link, extra_tags) of an adapter about to be
\* called, d being the detail page behind the link
DetailFrames ==
    {[fn |-> "_find_info_target_vacancy",
      args |-> [s |-> s, link |-> l, extra_tags |-> g, d |-> d],
      done |-> FALSE,
      result |-> Return(EmptyInfo)] :
        s \in SourceSet, l \in Links, g \in {<<>>, << <<"g", "o">> >>}, d \in DetailPages}

\* no process runs while a function is called on its own
Parked ==
    /\ now = 0
    /\ cfg = [cities |-> <<"moskva">>, extra_tags |-> <<>>, number_of_pages |-> 0]
    /\ world = SlowWorld
    /\ pc = "dead"
    /\ exc = ""
    /\ jobs = NoJobs
    /\ pending = <<>>
    /\ file = [s \in SourceSet |-> AbsentFile]
    /\ old_vacancies_links = {}
    /\ old_vacancies_info = <<>>
    /\ new_vacancies_info = <<>>
    /\ page = 0
    /\ todo = <<>>
    /\ new_vacancies_info_on_page = <<>>
    /\ prior = AbsentFile
    /\ fetched = {}
    /\ tally = NoTally
    /\ accepted = <<>>
    /\ listed = {}
    /\ listed_last = [s \in SourceSet |-> {}]
    /\ nlisted = 0
    /\ net = FALSE
    /\ served = [s \in SourceSet |-> 0]
    /\ invoked_at = None
    /\ starts = 0

program_vars ==
    <<now, pc, exc, jobs, pending, file, cfg, world,
      old_vacancies_links, old_vacancies_info, new_vacancies_info, page,
      todo, new_vacancies_info_on_page,
      prior, fetched, tally, accepted, listed, listed_last, nlisted, net,
      served, invoked_at, starts>>

CallInit ==
    /\ Parked
    /\ frame \in FilterFrames \cup DetailFrames

\* the call of _check_vacancy_on_extra_tags
call_check_vacancy_on_extra_tags ==
    /\ frame.fn = "_check_vacancy_on_extra_tags"
    /\ ~frame.done
    /\ frame' = [frame EXCEPT
                    !.done = TRUE,
                    !.result = _check_vacancy_on_extra_tags(frame.args.description,
                                                            frame.args.extra_tags)]
    /\ UNCHANGED program_vars

\* the call of _find_info_target_vacancy
call_find_info_target_vacancy ==
    /\ frame.fn = "_find_info_target_vacancy"
    /\ ~frame.done
    /\ frame' = [frame EXCEPT
                    !.done = TRUE,
                    !.result = _find_info_target_vacancy(frame.args.s, frame.args.link,
                                                         frame.args.extra_tags, frame.args.d)]
    /\ UNCHANGED program_vars

CallNext ==
    \/ call_check_vacancy_on_extra_tags
    \/ call_find_info_target_vacancy

CallSpec == CallInit /\ [][CallNext]_vars

(***************************************************************************)
(* Properties                                                              *)
(***************************************************************************)
\* a collection run is in progress
Running == pc \in {"pages", "items", "dump", "saved"}
\* the links of the records of a persisted state
Known(f) == LinksOf(f.new \o f.old)
NoDup(q) == \A i, j \in DOMAIN q : i # j => q[i]["link"] # q[j]["link"]
\* CITIES holds a city that the location table of s lacks
UnknownCity(s) ==
    \E i \in DOMAIN cfg.cities : title(cfg.cities[i]) \notin DOMAIN cities_for_search(s)
\* the longest a due job waits: the run of the other job and one sleep
MaxLag == MaxPages * MaxDelay + 1

\* C1: in every completely written state file no link occurs twice across
\* the concatenation of 'new' and 'old'.
C1_NoDuplicateLinks ==
    \A s \in SourceSet : file[s].kind = "json" => NoDup(file[s].new \o file[s].old)

\* C2: a run that completes persists exactly {new: the records it collected,
\* old: the prior 'new' followed by the prior 'old'} (an absent file counting
\* as two empty partitions).
C2_StateMigration ==
    pc = "saved" => file[cur] = JsonFile(accepted, prior.new \o prior.old)

C2_Witness ==
    /\ pc = "saved"
    /\ accepted # <<>>
    /\ prior.new # <<>>
    /\ prior.old # <<>>

\* C3 as stated: a run after a completed run of the same source, whose pages
\* list only identifiers that the pages of that earlier run listed, persists
\* an empty 'new' and 'old' = the earlier 'new' followed by 'old'.
C3_RelistedOriginal ==
    (pc = "saved" /\ prior.kind = "json" /\ listed \subseteq listed_last[cur])
        => (file[cur].new = <<>> /\ file[cur].old = prior.new \o prior.old)

\* C3 amended: a run whose pages list only links of the state persisted
\* before it persists an empty 'new' and 'old' = the prior 'new' followed by
\* the prior 'old'; a further such run leaves the content unchanged.
C3_DedupIdempotence ==
    (pc = "saved" /\ listed \subseteq Known(prior))
        => /\ file[cur].new = <<>>
           /\ file[cur].old = prior.new \o prior.old
           /\ (prior.kind = "json" /\ prior.new = <<>>) => file[cur] = prior

C3_Witness ==
    /\ pc = "saved"
    /\ listed # {}
    /\ listed \subseteq Known(prior)
    /\ prior.new # <<>>

\* C4: the detail fetch is never invoked for a link of a record of the state
\* persisted before the run began.
C4_DedupGate == fetched \cap Known(prior) = {}

C4_Witness ==
    /\ pc = "items"
    /\ todo = <<>>
    /\ fetched # {}
    /\ listed \cap Known(prior) # {}

\* C5: when a results page has been processed, every identifier listed so far
\* in the run that was not known before the run has been passed to the detail
\* fetch.
C5_Completeness ==
    (pc = "items" /\ todo = <<>>) => (listed \ Known(prior)) \subseteq fetched

\* C6: the process never ends on a failure of one listing (a missing element
\* of a detail page).
C6_SurvivesListingFailure ==
    exc \notin {"AttributeError", "TimeoutException", "IndexError"}

\* C7: the process never ends on a corrupt state file or an unknown city.
C7_FatalConfined == exc \notin {"JSONDecodeError", "KeyError"}

\* C8 as stated: with an unknown city every run aborts before any network
\* call, whatever NUMBER_OF_PAGES is: no run reaches a fetch or the save step.
C8_AbortsOriginal ==
    (Running /\ UnknownCity(cur)) => (~net /\ pc = "pages")

\* C8 amended: with an unknown city no run makes a network call; with
\* NUMBER_OF_PAGES >= 1 the run ends with the KeyError of the first url, before
\* any fetch and any write; with NUMBER_OF_PAGES = 0 no url is built.
C8_UnknownLocation ==
    /\ (Running /\ UnknownCity(cur)) =>
          /\ ~net
          /\ pc # "items"
          /\ cfg.number_of_pages >= 1 => (pc = "pages" /\ page = first_page(cur))
    /\ exc = "KeyError" =>
          /\ ~net
          /\ cfg.number_of_pages >= 1
          /\ \E s \in SourceSet : UnknownCity(s)

C8_Witness == exc = "KeyError" /\ cfg.number_of_pages >= 1 /\ ~net

\* C9: after the process was killed, no state file is empty or partly written.
C9_CrashSafe ==
    exc = "SIGKILL" => \A s \in SourceSet : file[s].kind \notin {"empty", "partial"}

\* C10: a job is invoked once for every time the clock crosses its hour: an
\* invocation falls in the day period after that of the previous invocation
\* (or of the start of the process), no later than MaxLag hours after the
\* period began, and no period passes without an invocation.
C10_SchedulerFiring ==
    /\ pc # "dead" => \A s \in SourceSet : period(s, now) <= served[s] + 1
    /\ Running =>
          /\ period(cur, invoked_at) = served[cur] + 1
          /\ invoked_at - fire_time(cur, period(cur, invoked_at)) <= MaxLag

C10_Witness ==
    /\ pc = "pages"
    /\ cur = HH
    /\ starts = 0
    /\ invoked_at = DayLen + AtHH

\* the term occurs in the text as a substring, ignoring letter case
occurs(term, text) ==
    \E i \in 1..(Len(text) - Len(term) + 1) :
        \A k \in 1..Len(term) : lower(term[k]) = lower(text[i + k - 1])
\* the term has no regular-expression metacharacter
plain(term) == \A k \in 1..Len(term) : term[k] # "."
FilterReturned == frame.fn = "_check_vacancy_on_extra_tags" /\ frame.done

\* C11 as stated: the filter returns true iff every term occurs in the text
\* as a substring, ignoring letter case.
C11_SubstringOriginal ==
    FilterReturned =>
        (frame.result <=> \A k \in DOMAIN frame.args.extra_tags :
                              occurs(frame.args.extra_tags[k], frame.args.description))

\* C11 amended: the filter returns true iff every term, read as a regular
\* expression, matches somewhere in the text ignoring letter case; for terms
\* without metacharacters that is iff every term occurs in the text as a
\* substring ignoring case; it returns true for the empty term list.
C11_KeywordFilter ==
    FilterReturned =>
        LET text == frame.args.description
            terms == frame.args.extra_tags
        IN  /\ frame.result <=> \A k \in DOMAIN terms : re_search(terms[k], text)
            /\ (\A k \in DOMAIN terms : plain(terms[k])) =>
                  (frame.result <=> \A k \in DOMAIN terms : occurs(terms[k], text))
            /\ terms = <<>> => frame.result

C11_Witness ==
    /\ FilterReturned
    /\ frame.args.description = <<"o", "G">>
    /\ frame.args.extra_tags = << <<"g">>, <<".", "g">> >>
    /\ frame.result

DetailReturned == frame.fn = "_find_info_target_vacancy" /\ frame.done
\* the description on the detail page d passes the keyword filter
Passes(d, extra_tags) ==
    extra_tags # <<>> =>
        (d.has_description /\ _check_vacancy_on_extra_tags(d.description, extra_tags))
\* the detail page d has the elements for position, company and address
HasRequired(s, d) ==
    /\ d.title
    /\ d.company
    /\ IF s = HH THEN d.raw_address \/ d.location ELSE d.location

\* C12: for either adapter, a detail page that lacks only the salary element
\* yields a record with the sentinel salary and with link, position, company
\* and address filled in; it raises nothing.
C12_PartialFieldTolerance ==
    (/\ DetailReturned
     /\ ~frame.args.d.salary
     /\ HasRequired(frame.args.s, frame.args.d)
     /\ Passes(frame.args.d, frame.args.extra_tags))
        => /\ frame.result.exc = ""
           /\ frame.result.info = Info(frame.args.link, "ne ukazano")

\* C13: the process never ends on a fetch that failed.
C13_TransportTolerated == exc \notin {"ConnectionError", "WebDriverException"}

RunningPcs == {"pages", "items", "dump", "saved"}

\* C14: one thread of control: while a run is in progress the scheduler does
\* nothing (the list of pending jobs and the job table stay as they are) and
\* the run stays the same run; a run is left only by its return or by the end
\* of the process; a run begins only when no run is in progress.
C14_Sequential ==
    [][/\ (Running /\ pc' \in RunningPcs) =>
             (pending' = pending /\ jobs' = jobs /\ invoked_at' = invoked_at)
       /\ (Running /\ pc' \notin RunningPcs) => (pc' = "dead" \/ pc = "saved")
       /\ (invoked_at' # invoked_at /\ invoked_at' # None) =>
             (pc = "job" /\ invoked_at = None)]_vars

\* the fire time of the 17:00 job passes while the 16:00 job runs
C14_Witness ==
    /\ Running
    /\ cur = Habr
    /\ should_run(jobs[HH])

\* the pages of the run in progress that have been processed
PagesDone == page - first_page(cur)

\* C15: in a run the state file is loaded once, when the run begins and before
\* any page is fetched; it is written only after NUMBER_OF_PAGES pages have
\* been processed (also when that is 0), only the file of the running source
\* is written, and after the write is complete the run writes no more.
C15_SingleWrite ==
    [][/\ file' # file =>
             /\ Running
             /\ pc \in {"pages", "dump"}
             /\ PagesDone = cfg.number_of_pages
             /\ \A s \in SourceSet \ {cur} : file'[s] = file[s]
       /\ pc = "saved" => file' = file
       /\ (Running /\ pc' \in RunningPcs) =>
             (/\ prior' = prior
              /\ old_vacancies_links' = old_vacancies_links
              /\ old_vacancies_info' = old_vacancies_info)
       /\ (pc = "job" /\ pc' = "pages") =>
             (/\ prior' = file[cur]
              /\ file' = file
              /\ ~net'
              /\ page' = first_page(cur))]_vars

C15_Witness ==
    /\ pc = "saved"
    /\ cfg.number_of_pages = MaxPages
    /\ PagesDone = MaxPages
    /\ file[cur] # prior
    /\ file[cur].new # <<>>

\* C16: of the detail fetches of a run that returned, those whose text fails
\* the keyword filter (EXTRA_TAGS non-empty) are not collected and all others
\* are; with EXTRA_TAGS empty none is skipped; the persisted 'new' partition
\* holds one record for each collected fetch and none for a skipped one.
C16_KeywordGate ==
    /\ Running => tally.returned = Len(accepted) + tally.failed
    /\ (Running /\ cfg.extra_tags = <<>>) => tally.failed = 0
    /\ pc = "saved" => Len(file[cur].new) = tally.returned - tally.failed

C16_Witness ==
    /\ pc = "saved"
    /\ tally.failed >= 1
    /\ Len(file[cur].new) >= 1

\* the index of the first results page of a source
FirstIndex(s) == IF s = HH THEN 0 ELSE 1

\* C17: a run starts at page index 0 (HeadHunter) or 1 (HabrCareer); every
\* page it fetches has an index below the first index plus NUMBER_OF_PAGES;
\* after a page, whatever it yielded, the run goes on to the next index; the
\* index changes in no other way; and the run saves only when exactly
\* NUMBER_OF_PAGES pages have been visited.
C17_PageOrder ==
    [][/\ (pc = "job" /\ pc' = "pages") => page' = FirstIndex(cur)
       /\ (pc = "pages" /\ pc' = "items") =>
             /\ page' = page
             /\ page >= FirstIndex(cur)
             /\ page - FirstIndex(cur) < cfg.number_of_pages
       /\ (pc = "items" /\ pc' \notin {"items", "dead"}) =>
             (pc' = "pages" /\ page' = page + 1)
       /\ (Running /\ pc' \in RunningPcs /\ page' # page) => pc = "items"
       /\ (pc = "pages" /\ pc' = "dump") =>
             page - FirstIndex(cur) = cfg.number_of_pages]_vars

\* every page of a run has been visited although none listed anything
C17_Witness ==
    /\ pc = "dump"
    /\ cfg.number_of_pages = MaxPages
    /\ page - FirstIndex(cur) = MaxPages
    /\ nlisted = 0
    /\ net

\* the file exists and cannot be used as a state
Corrupt(f) == f.kind \notin {"absent", "json"}

\* C18: a run that finds the state file of its source unparseable, or without
\* the partitions, ends at the load: no page is fetched and no file is
\* written, the file stays as it was; a run that finds no file starts its
\* pages with an empty link set and an empty record list.
C18_CorruptKept ==
    [][/\ (pc = "job" /\ Corrupt(file[cur])) =>
             (pc' = "dead" /\ file' = file /\ ~net')
       /\ (pc = "job" /\ file[cur].kind = "absent" /\ pc' # "dead") =>
             /\ pc' = "pages"
             /\ old_vacancies_links' = {}
             /\ old_vacancies_info' = <<>>
             /\ file' = file
       /\ pc' \in RunningPcs => ~Corrupt(prior')
       /\ exc' \in {"JSONDecodeError", "KeyError('new')"} =>
             \E s \in SourceSet : Corrupt(file'[s])]_vars

C18_Witness ==
    /\ exc = "JSONDecodeError"
    /\ starts >= 1
    /\ \E s \in SourceSet : file[s].kind = "partial"

\* the records of a persisted state
Records(f) == Range(f.new \o f.old)

\* C19: whenever the file of the running source is a complete state, it holds
\* every record, with the same field values, and every link of the state the
\* run loaded, which is the state the previous completed run persisted.
C19_HistoryKept ==
    (Running /\ file[cur].kind = "json") =>
        /\ Records(prior) \subseteq Records(file[cur])
        /\ Known(prior) \subseteq Known(file[cur])

\* a third run that found nothing has kept the records of the two before it
C19_Witness ==
    /\ pc = "saved"
    /\ accepted = <<>>
    /\ prior.new # <<>>
    /\ prior.old # <<>>
    /\ Cardinality(Known(file[cur])) >= 2

\* C20: in a complete state file no link of the 'new' partition is a link of
\* the 'old' partition, and the state a run persists has in 'old' every
\* record of the 'new' and of the 'old' partition of the state it loaded.
C20_OneGeneration ==
    /\ \A s \in SourceSet :
          file[s].kind = "json" => LinksOf(file[s].new) \cap LinksOf(file[s].old) = {}
    /\ pc = "saved" =>
          /\ Range(prior.new) \subseteq Range(file[cur].old)
          /\ Range(prior.old) \subseteq Range(file[cur].old)
          /\ LinksOf(file[cur].new) \cap Known(prior) = {}

\* a record persisted as new by one run is old, and only old, after the next
\* run, which persisted another record as new
C20_Witness ==
    /\ pc = "saved"
    /\ prior.new # <<>>
    /\ file[cur].new # <<>>
    /\ LinksOf(prior.new) \subseteq LinksOf(file[cur].old)

====
